---- MODULE Spec2Model ----
(***************************************************************************)
(* Model of the two geometry scripts make_cv.py and make_domain.py.        *)
(*                                                                         *)
(* Each script builds a planar geometry with a pygmsh built-in Geometry    *)
(* object, writes geometry.get_code() to a .geo file and calls gmsh on it. *)
(* A script is a straight-line program; it is modelled as the sequence of  *)
(* its statements (CvProgram, DomainProgram) run by one action per kind of *)
(* statement.  Handles returned by the builder are the creation positions  *)
(* of the entities.  Point coordinates are not interpreted by any          *)
(* statement of the scripts; a point carries the index of its coordinate   *)
(* in the list it was built from and its mesh-size hint (in hundredths).   *)
(***************************************************************************)
EXTENDS Integers, Sequences, FiniteSets, TLC

VARIABLES script, pc, n, acc, entities, points, lines, arcs, center,
          line_loops, plane_surface, geoState, geoText, tool, status,
          failStage

vars == <<script, pc, n, acc, entities, points, lines, arcs, center,
          line_loops, plane_surface, geoState, geoText, tool, status,
          failStage>>

builderVars == <<entities, points, lines, arcs, center, line_loops,
                 plane_surface, acc, n>>

(* ------------------------------ bounds -------------------------------- *)

\* largest exit code the mesh tool is let to return
MaxExit == 2

\* largest signal number the mesh tool is let to die of (returncode -s)
MaxSignal == 1

(* ------------------------- program constants -------------------------- *)

\* len(coords) in make_cv.py
CvK == 4

\* N of the outer ellipse, of the first and of the second hole
OuterN == 256

Inner1N == 72

Inner2N == 96

\* mesh-size hints, in hundredths
CvDx == 1

DomainDx == 25

\* an open-ended slice bound, lines[k:]
End == -1

(* --------------------------- the programs ----------------------------- *)

Nop == [op |-> "nop", cnt |-> 0, lo |-> 0, hi |-> 0, outer |-> 0,
        holes |-> <<>>, lcar |-> 0]

\* points = [geometry.add_point(c, dx) for ... cnt items]
PointsStmt(cnt, dx) == [Nop EXCEPT !.op = "points", !.cnt = cnt, !.lcar = dx]

\* lines = [geometry.add_line(points[n], points[(n+1) % cnt]) for n in range(cnt)]
\* cnt = 0 stands for range(len(points))
LinesStmt(cnt) == [Nop EXCEPT !.op = "lines", !.cnt = cnt]

\* geometry.add_physical(lines[lo:hi])
PhysicalLinesStmt(lo, hi) == [Nop EXCEPT !.op = "physical_lines", !.lo = lo, !.hi = hi]

LineLoopStmt == [Nop EXCEPT !.op = "line_loop"]

CenterStmt(dx) == [Nop EXCEPT !.op = "center", !.lcar = dx]

ArcsStmt == [Nop EXCEPT !.op = "arcs"]

PhysicalArcsStmt == [Nop EXCEPT !.op = "physical_arcs"]

\* geometry.add_plane_surface(line_loops[outer], holes=[line_loops[h] ...])
PlaneSurfaceStmt(outer, holes) ==
    [Nop EXCEPT !.op = "plane_surface", !.outer = outer, !.holes = holes]

PhysicalSurfaceStmt == [Nop EXCEPT !.op = "physical_surface"]

\* with open(..., 'w') as geo_file: geo_file.write(geometry.get_code())
WithBlock == << [Nop EXCEPT !.op = "open"], [Nop EXCEPT !.op = "write"],
                [Nop EXCEPT !.op = "close"] >>

CallStmt == [Nop EXCEPT !.op = "call"]

CvProgramArcGroup ==
    << PointsStmt(CvK, CvDx), LinesStmt(0), PhysicalLinesStmt(0, End),
       LineLoopStmt,
       CenterStmt(CvDx), PointsStmt(CvK, CvDx), ArcsStmt, PhysicalArcsStmt,
       PlaneSurfaceStmt(1, <<>>), PhysicalSurfaceStmt >>
    \o WithBlock \o << CallStmt >>

CvProgram ==
    << PointsStmt(CvK, CvDx), LinesStmt(0), PhysicalLinesStmt(0, End),
       LineLoopStmt,
       CenterStmt(CvDx), PointsStmt(CvK, CvDx), ArcsStmt,
       PlaneSurfaceStmt(1, <<>>), PhysicalSurfaceStmt >>
    \o WithBlock \o << CallStmt >>

QuarterSlicesGap(N) ==
    << <<0, N \div 4>>, <<N \div 4 + 1, N \div 2>>,
       <<N \div 2, (3 * N) \div 4>>, <<(3 * N) \div 4, End>> >>

\* the four slices of lines registered for the outer boundary
QuarterSlices(N) ==
    << <<0, N \div 4>>, <<N \div 4, N \div 2>>,
       <<N \div 2, (3 * N) \div 4>>, <<(3 * N) \div 4, End>> >>

OuterBlock ==
    << PointsStmt(OuterN, DomainDx), LinesStmt(OuterN) >>
    \o [k \in 1..4 |-> PhysicalLinesStmt(QuarterSlices(OuterN)[k][1],
                                         QuarterSlices(OuterN)[k][2])]
    \o << LineLoopStmt >>

InnerBlock(N) ==
    << PointsStmt(N, DomainDx), LinesStmt(N), PhysicalLinesStmt(0, End),
       LineLoopStmt >>

DomainSurfaceSameHole == << PlaneSurfaceStmt(1, <<2, 2>>), PhysicalSurfaceStmt >>

DomainSurface == << PlaneSurfaceStmt(1, <<2, 3>>), PhysicalSurfaceStmt >>

DomainProgramCallFirst ==
    OuterBlock \o InnerBlock(Inner1N) \o InnerBlock(Inner2N)
    \o DomainSurface \o << CallStmt >> \o WithBlock

DomainProgram ==
    OuterBlock \o InnerBlock(Inner1N) \o InnerBlock(Inner2N)
    \o DomainSurface \o WithBlock \o << CallStmt >>

Program == IF script = "cv" THEN CvProgram ELSE DomainProgram

Running == status = "running" /\ pc <= Len(Program)

Cur == Program[pc]

BuilderOps == {"points", "lines", "physical_lines", "line_loop", "center",
               "arcs", "physical_arcs", "plane_surface", "physical_surface"}

(* ---------------------------- the builder ----------------------------- *)

Entity == [kind |-> "none", refs |-> <<>>, holes |-> <<>>, coord |-> 0,
           lcar |-> 0]

Point(c, dx) == [Entity EXCEPT !.kind = "point", !.coord = c, !.lcar = dx]

Line(p0, p1) == [Entity EXCEPT !.kind = "line", !.refs = <<p0, p1>>]

CircleArc(p0, c, p1) == [Entity EXCEPT !.kind = "arc", !.refs = <<p0, c, p1>>]

LineLoop(ls) == [Entity EXCEPT !.kind = "loop", !.refs = ls]

PlaneSurface(ll, hs) == [Entity EXCEPT !.kind = "surface", !.refs = <<ll>>, !.holes = hs]

Physical(es) == [Entity EXCEPT !.kind = "physical", !.refs = es]

NewHandleOffByOne == Len(entities) + 2

\* the handle of the entity about to be created
NewHandle == Len(entities) + 1

NextIndexNoWrap(k, N) == IF k + 1 < N THEN k + 1 ELSE k

\* (n + 1) % N
NextIndex(k, N) == (k + 1) % N

\* s[k] with Python's zero-based index
At(s, k) == s[k + 1]

\* s[lo:hi] with Python's slice bounds
PySlice(s, lo, hi) ==
    LET h == IF hi = End \/ hi > Len(s) THEN Len(s) ELSE hi
    IN  SubSeq(s, lo + 1, h)

RangeLenShort(stmt) == (IF stmt.cnt = 0 THEN Len(points) ELSE stmt.cnt) - 1

\* the length of the range a comprehension iterates over
RangeLen(stmt) == IF stmt.cnt = 0 THEN Len(points) ELSE stmt.cnt

(* --------------------------- the serializer --------------------------- *)

Keyword(e) ==
    CASE e.kind = "point" -> "Point"
      [] e.kind = "line" -> "Line"
      [] e.kind = "arc" -> "Circle"
      [] e.kind = "loop" -> "Line Loop"
      [] e.kind = "surface" -> "Plane Surface"
      [] e.kind = "physical" ->
            IF entities[e.refs[1]].kind = "surface" THEN "Physical Surface"
            ELSE "Physical Line"

Statement(k) ==
    [stmt |-> Keyword(entities[k]), id |-> k, args |-> entities[k].refs,
     holes |-> entities[k].holes]

\* geometry.get_code(): one statement per entity, in creation order
GetCode == [k \in 1..Len(entities) |-> Statement(k)]

\* what a .geo file left by an earlier run holds
StaleText == << [stmt |-> "Stale", id |-> 0, args |-> <<>>, holes |-> <<>>] >>

(* ----------------------------- the tool ------------------------------- *)

ExitCodes == (0 - MaxSignal)..MaxExit

ToolOutcomes == {[found |-> FALSE, code |-> 0]}
                \cup {[found |-> TRUE, code |-> c] : c \in ExitCodes}

SubprocessCheckCall(o) ==
    [raised |-> ~o.found \/ o.code # 0, ret |-> o.code]

SubprocessCallShell(o) ==
    [raised |-> FALSE, ret |-> IF o.found THEN o.code ELSE 127]

\* subprocess.call(argv): raises when the executable cannot be started,
\* returns the exit code otherwise
SubprocessCall(o) == [raised |-> ~o.found, ret |-> o.code]

(* ------------------------------- Init --------------------------------- *)

Init ==
    /\ script \in {"cv", "domain"}
    /\ pc = 1
    /\ n = 0
    /\ acc = <<>>
    /\ entities = <<>>
    /\ points = <<>>
    /\ lines = <<>>
    /\ arcs = <<>>
    /\ center = 0
    /\ line_loops = <<>>
    /\ plane_surface = 0
    /\ geoState = "untouched"
    /\ geoText \in {<<>>, StaleText}
    /\ tool = [calls |-> 0, found |-> FALSE, code |-> 0]
    /\ status = "running"
    /\ failStage = "none"

(* --------------------------- exceptions ------------------------------- *)

\* the first statement after the stage an exception was raised in
AfterStage(stage) ==
    LET ops == IF stage = "build" THEN BuilderOps
               ELSE IF stage = "write" THEN BuilderOps \cup {"open", "write", "close"}
               ELSE BuilderOps \cup {"open", "write", "close", "call"}
    IN  IF \E k \in pc..Len(Program) : Program[k].op \notin ops
        THEN CHOOSE k \in pc..Len(Program) :
                 /\ Program[k].op \notin ops
                 /\ \A j \in pc..(k - 1) : Program[j].op \in ops
        ELSE Len(Program) + 1

Swallow(stage) ==
    /\ status' = status
    /\ failStage' = stage
    /\ pc' = AfterStage(stage)

\* an exception no statement of the script catches: the run ends there
Propagate(stage) ==
    /\ status' = "raised"
    /\ failStage' = stage
    /\ pc' = pc

(* ------------------------------ actions ------------------------------- *)

\* one iteration of points = [geometry.add_point(...) for ...]
AddPoint ==
    /\ Running /\ Cur.op = "points"
    /\ LET acc2 == Append(acc, NewHandle)
       IN  /\ entities' = Append(entities, Point(n, Cur.lcar))
           /\ IF n + 1 < RangeLen(Cur)
              THEN /\ n' = n + 1 /\ acc' = acc2 /\ points' = points /\ pc' = pc
              ELSE /\ n' = 0 /\ acc' = <<>> /\ points' = acc2 /\ pc' = pc + 1
    /\ UNCHANGED <<script, lines, arcs, center, line_loops, plane_surface,
                   geoState, geoText, tool, status, failStage>>

\* center = geometry.add_point([0.5, 0.5, 0], dx)
AddCenterPoint ==
    /\ Running /\ Cur.op = "center"
    /\ entities' = Append(entities, Point(0, Cur.lcar))
    /\ center' = NewHandle
    /\ pc' = pc + 1
    /\ UNCHANGED <<script, n, acc, points, lines, arcs, line_loops,
                   plane_surface, geoState, geoText, tool, status, failStage>>

\* one iteration of lines = [geometry.add_line(points[n], points[(n+1) % N]) ...]
AddLine ==
    /\ Running /\ Cur.op = "lines"
    /\ LET acc2 == Append(acc, NewHandle)
           N == RangeLen(Cur)
       IN  /\ entities' = Append(entities,
                                 Line(At(points, n), At(points, NextIndex(n, N))))
           /\ IF n + 1 < N
              THEN /\ n' = n + 1 /\ acc' = acc2 /\ lines' = lines /\ pc' = pc
              ELSE /\ n' = 0 /\ acc' = <<>> /\ lines' = acc2 /\ pc' = pc + 1
    /\ UNCHANGED <<script, points, arcs, center, line_loops, plane_surface,
                   geoState, geoText, tool, status, failStage>>

\* one iteration of arcs = [geometry.add_circle_arc(points[n], center, points[(n+1) % len(points)]) ...]
AddCircleArc ==
    /\ Running /\ Cur.op = "arcs"
    /\ LET acc2 == Append(acc, NewHandle)
           N == Len(points)
       IN  /\ entities' = Append(entities,
                                 CircleArc(At(points, n), center,
                                           At(points, NextIndex(n, N))))
           /\ IF n + 1 < N
              THEN /\ n' = n + 1 /\ acc' = acc2 /\ arcs' = arcs /\ pc' = pc
              ELSE /\ n' = 0 /\ acc' = <<>> /\ arcs' = acc2 /\ pc' = pc + 1
    /\ UNCHANGED <<script, points, lines, center, line_loops, plane_surface,
                   geoState, geoText, tool, status, failStage>>

\* geometry.add_physical(lines[lo:hi]), add_physical(arcs), add_physical(plane_surface)
AddPhysical ==
    /\ Running /\ Cur.op \in {"physical_lines", "physical_arcs", "physical_surface"}
    /\ LET members == CASE Cur.op = "physical_lines" -> PySlice(lines, Cur.lo, Cur.hi)
                        [] Cur.op = "physical_arcs" -> arcs
                        [] Cur.op = "physical_surface" -> <<plane_surface>>
       IN  entities' = Append(entities, Physical(members))
    /\ pc' = pc + 1
    /\ UNCHANGED <<script, n, acc, points, lines, arcs, center, line_loops,
                   plane_surface, geoState, geoText, tool, status, failStage>>

\* line_loop = geometry.add_line_loop(lines)
AddLineLoop ==
    /\ Running /\ Cur.op = "line_loop"
    /\ entities' = Append(entities, LineLoop(lines))
    /\ line_loops' = Append(line_loops, NewHandle)
    /\ pc' = pc + 1
    /\ UNCHANGED <<script, n, acc, points, lines, arcs, center, plane_surface,
                   geoState, geoText, tool, status, failStage>>

\* plane_surface = geometry.add_plane_surface(outer, holes=[...])
AddPlaneSurface ==
    /\ Running /\ Cur.op = "plane_surface"
    /\ entities' = Append(entities,
                          PlaneSurface(line_loops[Cur.outer],
                                       [k \in 1..Len(Cur.holes) |->
                                            line_loops[Cur.holes[k]]]))
    /\ plane_surface' = NewHandle
    /\ pc' = pc + 1
    /\ UNCHANGED <<script, n, acc, points, lines, arcs, center, line_loops,
                   geoState, geoText, tool, status, failStage>>

\* the geometry library raises on the input of a builder call
BuilderRaises ==
    /\ Running /\ Cur.op \in BuilderOps
    /\ Propagate("build")
    /\ UNCHANGED <<script, geoState, geoText, tool>>
    /\ UNCHANGED builderVars

\* open('x.geo', 'w'): the file is created or truncated
OpenFile ==
    /\ Running /\ Cur.op = "open"
    /\ geoState' = "open"
    /\ geoText' = <<>>
    /\ pc' = pc + 1
    /\ UNCHANGED <<script, tool, status, failStage>>
    /\ UNCHANGED builderVars

\* open raises (permission denied): nothing is touched
OpenRaises ==
    /\ Running /\ Cur.op = "open"
    /\ Propagate("write")
    /\ UNCHANGED <<script, geoState, geoText, tool>>
    /\ UNCHANGED builderVars

\* geo_file.write(geometry.get_code())
WriteFile ==
    /\ Running /\ Cur.op = "write"
    /\ geoState = "open"
    /\ geoText' = geoText \o GetCode
    /\ pc' = pc + 1
    /\ UNCHANGED <<script, geoState, tool, status, failStage>>
    /\ UNCHANGED builderVars

\* the write raises part way: the with block closes the file on the way out
WriteRaises ==
    /\ Running /\ Cur.op = "write"
    /\ geoState = "open"
    /\ \E k \in 0..(Len(GetCode) - 1) : geoText' = geoText \o SubSeq(GetCode, 1, k)
    /\ geoState' = "closed"
    /\ Propagate("write")
    /\ UNCHANGED <<script, tool>>
    /\ UNCHANGED builderVars

\* leaving the with block closes the file
CloseFile ==
    /\ Running /\ Cur.op = "close"
    /\ geoState = "open"
    /\ geoState' = "closed"
    /\ pc' = pc + 1
    /\ UNCHANGED <<script, geoText, tool, status, failStage>>
    /\ UNCHANGED builderVars

\* subprocess.call(['gmsh', '-2', '-format', 'msh2', 'x.geo']); the value
\* it returns is dropped
Call ==
    /\ Running /\ Cur.op = "call"
    /\ \E o \in ToolOutcomes :
          /\ tool' = [calls |-> tool.calls + 1, found |-> o.found, code |-> o.code]
          /\ IF SubprocessCall(o).raised
             THEN Propagate("invoke")
             ELSE /\ pc' = pc + 1
                  /\ UNCHANGED <<status, failStage>>
    /\ UNCHANGED <<script, geoState, geoText>>
    /\ UNCHANGED builderVars

\* the end of the module is reached: the interpreter exits with status 0
Exit ==
    /\ status = "running" /\ pc = Len(Program) + 1
    /\ status' = "ok"
    /\ UNCHANGED <<script, pc, geoState, geoText, tool, failStage>>
    /\ UNCHANGED builderVars

Next ==
    \/ AddPoint
    \/ AddCenterPoint
    \/ AddLine
    \/ AddCircleArc
    \/ AddPhysical
    \/ AddLineLoop
    \/ AddPlaneSurface
    \/ BuilderRaises
    \/ OpenFile
    \/ OpenRaises
    \/ WriteFile
    \/ WriteRaises
    \/ CloseFile
    \/ Call
    \/ Exit

Spec == Init /\ [][Next]_vars

(* ----------------------- derived notions ------------------------------ *)

\* every builder statement of the program has been executed
BuildDone == \A k \in pc..Len(Program) : Program[k].op \notin BuilderOps

\* the complete text has been written and the file closed
Written == geoState = "closed" /\ failStage # "write"

Phase == IF tool.calls > 0 THEN "Invoked"
         ELSE IF Written THEN "Serialized"
         ELSE "Building"

Handles(kind) == {k \in 1..Len(entities) : entities[k].kind = kind}

Range(s) == {s[k] : k \in 1..Len(s)}

\* the number of vertices of the polygons, in the order they are built
ExpectedK == IF script = "cv" THEN <<CvK>> ELSE <<OuterN, Inner1N, Inner2N>>

(* ------------------------------- C1 ----------------------------------- *)

\* C1: every run goes Building -> Serialized -> Invoked and never back or
\* around: statements run in order, the tool is called at most once and
\* only on a closed file holding the complete text, and no builder
\* operation changes the geometry once the file has been opened.
C1_LinearOrder ==
    [][ /\ (Phase' # Phase) =>
              <<Phase, Phase'>> \in {<<"Building", "Serialized">>,
                                     <<"Serialized", "Invoked">>}
        /\ pc' \in {pc, pc + 1}
        /\ tool'.calls <= 1
        /\ (tool'.calls > tool.calls) => (geoState = "closed" /\ geoText = GetCode)
        /\ (geoState # "untouched") => (entities' = entities)
      ]_vars

C1_Witness ==
    /\ status = "ok" /\ Phase = "Invoked" /\ tool.calls = 1 /\ tool.found
    /\ geoState = "closed" /\ geoText = GetCode

(* ------------------------------- C2 ----------------------------------- *)

\* C2 as stated: with a nonexistent executable the call does not raise and
\* the script ends as it does when the tool runs.
C2_MissingToolNoError ==
    (tool.calls > 0 /\ ~tool.found) => status # "raised"

\* C2 amended: with a nonexistent executable the .geo file is already
\* written and closed, and the call raises an exception nothing catches, so
\* the script ends with an error at the call.
C2_MissingToolRaises ==
    (tool.calls > 0 /\ ~tool.found) =>
        /\ geoState = "closed" /\ geoText = GetCode
        /\ status = "raised" /\ failStage = "invoke"
        /\ pc <= Len(Program) /\ Program[pc].op = "call"

C2_Witness ==
    /\ tool.calls = 1 /\ ~tool.found /\ status = "raised"
    /\ geoState = "closed"

(* ------------------------------- C3 ----------------------------------- *)

\* C3: the exit code of the launched tool is never looked at: whatever it
\* is, the call step moves to the next statement and changes nothing else
\* of the script's state, and the run ends normally.
C3_ExitCodeIgnored ==
    /\ []((tool.calls > 0 /\ tool.found) =>
             /\ status \in {"running", "ok"}
             /\ failStage = "none"
             /\ pc = Len(Program) + 1)
    /\ [][(tool'.calls > tool.calls /\ tool'.found) =>
             /\ pc' = pc + 1
             /\ UNCHANGED <<status, failStage, geoState, geoText>>
             /\ UNCHANGED builderVars]_vars

C3_Witness == status = "ok" /\ tool.found /\ tool.code # 0

(* ------------------------------- C4 ----------------------------------- *)

\* C4: a failure of a builder call or of the open or write is not caught:
\* the run ends there, the tool is never called in such a run, and after a
\* builder failure the run has not touched the .geo file.
C4_FailureEndsRun ==
    /\ []((failStage \in {"build", "write"}) =>
             /\ status = "raised"
             /\ tool.calls = 0)
    /\ []((failStage = "build") =>
             /\ geoState = "untouched"
             /\ geoText \in {<<>>, StaleText})
    /\ [][status # "raised"]_vars

C4_Witness ==
    /\ failStage = "build" /\ status = "raised" /\ Len(entities) > 0
    /\ geoText = StaleText

(* ------------------------------- C5 ----------------------------------- *)

KindsOf(e) ==
    CASE e.kind = "line" -> {"point"}
      [] e.kind = "arc" -> {"point"}
      [] e.kind = "loop" -> {"line"}
      [] e.kind = "surface" -> {"loop"}
      [] e.kind = "physical" -> {"line", "surface"}
      [] OTHER -> {}

KeywordsOf(st) ==
    CASE st.stmt = "Line" -> {"Point"}
      [] st.stmt = "Circle" -> {"Point"}
      [] st.stmt = "Line Loop" -> {"Line"}
      [] st.stmt = "Plane Surface" -> {"Line Loop"}
      [] st.stmt = "Physical Line" -> {"Line"}
      [] st.stmt = "Physical Surface" -> {"Plane Surface"}
      [] OTHER -> {}

\* C5: every entity refers only to entities of the right kind created
\* before it, and every statement of the emitted text only to statements
\* at earlier positions of the text.
C5_RefsPrecede ==
    /\ \A k \in 1..Len(entities) :
          LET e == entities[k]
          IN  \A r \in Range(e.refs) \cup Range(e.holes) :
                  /\ r \in 1..(k - 1)
                  /\ entities[r].kind \in KindsOf(e)
    /\ (geoState # "untouched") =>
          \A k \in 1..Len(geoText) :
              LET st == geoText[k]
              IN  /\ st.id = k
                  /\ \A r \in Range(st.args) \cup Range(st.holes) :
                         /\ r \in 1..(k - 1)
                         /\ geoText[r].stmt \in KeywordsOf(st)

C5_Witness ==
    /\ script = "domain" /\ status = "ok" /\ Len(geoText) = Len(entities)
    /\ plane_surface # 0 /\ Len(entities[plane_surface].holes) = 2

(* ------------------------------- C6 ----------------------------------- *)

\* the start and the end point of line l
StartOf(l) == entities[l].refs[1]

EndOf(l) == entities[l].refs[2]

\* line i of ls ends where line (i + 1) mod N starts, and every point is
\* the start of one line and the end of one line
Closed(ls) ==
    LET N == Len(ls)
        starts == {StartOf(ls[i]) : i \in 1..N}
        ends == {EndOf(ls[i]) : i \in 1..N}
    IN  /\ N > 0
        /\ \A i \in 1..N : EndOf(ls[i]) = StartOf(ls[(i % N) + 1])
        /\ Cardinality(starts) = N
        /\ Cardinality(ends) = N
        /\ starts = ends

\* C6: every line loop given to add_line_loop is closed, the wrap-around
\* from its last line to its first point included, and the loops have 4
\* lines (make_cv.py) and 256, 72 and 96 lines (make_domain.py).
C6_LoopsClosed ==
    /\ Handles("loop") = Range(line_loops)
    /\ Len(line_loops) <= Len(ExpectedK)
    /\ \A j \in 1..Len(line_loops) :
          LET ls == entities[line_loops[j]].refs
          IN  /\ Len(ls) = ExpectedK[j]
              /\ Closed(ls)

C6_Witness ==
    /\ script = "domain" /\ Len(line_loops) = 3
    /\ Len(entities[line_loops[3]].refs) = Inner2N

(* ------------------------------- C7 ----------------------------------- *)

\* the points the lines of loop j start from
PolygonPoints(j) ==
    {StartOf(l) : l \in Range(entities[line_loops[j]].refs)}

\* the lines that touch a point of loop j
PolygonLines(P) ==
    {l \in Handles("line") : StartOf(l) \in P \/ EndOf(l) \in P}

Count(text, word, ids) ==
    Cardinality({k \in 1..Len(text) : text[k].stmt = word /\ text[k].id \in ids})

\* C7: a polygon of K vertices has K points and K lines of its own, its
\* loop names those K lines once each in creation order, and the written
\* file holds one Point statement per point, one Line statement per line
\* and the loop statement with the same K lines.
C7_PolygonCounts ==
    /\ \A j \in 1..Len(line_loops) :
          LET ls == entities[line_loops[j]].refs
          IN  /\ Len(ls) = ExpectedK[j]
              /\ \A i \in 1..Len(ls) : entities[ls[i]].kind = "line"
              /\ \A i \in 1..(Len(ls) - 1) : ls[i] < ls[i + 1]
    /\ (BuildDone /\ geoState = "untouched" /\ status = "running") =>
          /\ Len(line_loops) = Len(ExpectedK)
          /\ \A j \in 1..Len(line_loops) :
                LET ls == entities[line_loops[j]].refs
                    P == PolygonPoints(j)
                IN  /\ Cardinality(P) = ExpectedK[j]
                    /\ \A p \in P : entities[p].kind = "point"
                    /\ PolygonLines(P) = Range(ls)
                    /\ Cardinality(Range(ls)) = ExpectedK[j]
    /\ (Written /\ status = "ok") =>
          /\ Len(geoText) = Len(entities)
          /\ \A j \in 1..Len(line_loops) :
                LET ls == entities[line_loops[j]].refs
                IN  /\ Count(geoText, "Point", PolygonPoints(j)) = ExpectedK[j]
                    /\ Count(geoText, "Line", Range(ls)) = ExpectedK[j]
                    /\ geoText[line_loops[j]].stmt = "Line Loop"
                    /\ geoText[line_loops[j]].args = ls

C7_Witness ==
    /\ script = "domain" /\ Written /\ status = "ok"
    /\ Len(line_loops) = 3 /\ Len(geoText) = Len(entities)

(* ------------------------------- C8 ----------------------------------- *)

\* C8: the surface of make_cv.py has the square loop as outer loop and no
\* hole; the surface of make_domain.py has the 256-line loop as outer loop
\* and two distinct holes, the 72-line loop then the 96-line loop, neither
\* being the outer loop; the written Plane Surface statement says the same.
C8_SurfaceHoles ==
    /\ Cardinality(Handles("surface")) <= 1
    /\ \A s \in Handles("surface") :
          LET e == entities[s]
              outer == e.refs[1]
          IN  /\ s = plane_surface
              /\ Len(e.refs) = 1
              /\ entities[outer].kind = "loop"
              /\ Len(entities[outer].refs) = ExpectedK[1]
              /\ outer = line_loops[1]
              /\ Len(e.holes) = Len(ExpectedK) - 1
              /\ \A h \in 1..Len(e.holes) :
                    /\ e.holes[h] = line_loops[h + 1]
                    /\ entities[e.holes[h]].kind = "loop"
                    /\ Len(entities[e.holes[h]].refs) = ExpectedK[h + 1]
                    /\ e.holes[h] # outer
              /\ Cardinality(Range(e.holes)) = Len(e.holes)
              /\ (Written /\ status = "ok") =>
                    /\ geoText[s].stmt = "Plane Surface"
                    /\ geoText[s].args = <<outer>>
                    /\ geoText[s].holes = e.holes

C8_Witness ==
    /\ script = "domain" /\ Written /\ status = "ok"
    /\ Len(entities[plane_surface].holes) = 2

(* ------------------------------- C9 ----------------------------------- *)

\* the physical groups made of lines, in creation order
LineGroups ==
    LET hs == {g \in Handles("physical") :
                  entities[entities[g].refs[1]].kind = "line"}
    IN  [g \in hs |-> entities[g].refs]

Consecutive(ls) == \A i \in 1..(Len(ls) - 1) : ls[i + 1] = ls[i] + 1

SumLen(G, S) ==
    LET RECURSIVE Sum(_)
        Sum(T) == IF T = {} THEN 0
                  ELSE LET g == CHOOSE x \in T : TRUE
                       IN  Len(G[g]) + Sum(T \ {g})
    IN  Sum(S)

\* C9: in make_domain.py the first four line groups are disjoint, 64
\* consecutive lines each, and cover the 256 outer lines; the two holes
\* are one group each of 72 and 96 lines; every line is in exactly one
\* line group.
C9_QuartersPartition ==
    (script = "domain" /\ BuildDone) =>
        LET G == LineGroups
            hs == DOMAIN G
            outer == Range(entities[line_loops[1]].refs)
            quarters == {g \in hs : g < line_loops[1]}
        IN  /\ Cardinality(hs) = 6
            /\ Cardinality(quarters) = 4
            /\ \A g \in quarters :
                  /\ Len(G[g]) = OuterN \div 4
                  /\ Consecutive(G[g])
            /\ \A g, h \in quarters : g # h => Range(G[g]) \cap Range(G[h]) = {}
            /\ UNION {Range(G[g]) : g \in quarters} = outer
            /\ Cardinality(outer) = OuterN
            /\ \E g \in hs : G[g] = entities[line_loops[2]].refs /\ Len(G[g]) = Inner1N
            /\ \E g \in hs : G[g] = entities[line_loops[3]].refs /\ Len(G[g]) = Inner2N
            /\ UNION {Range(G[g]) : g \in hs} = Handles("line")
            /\ SumLen(G, hs) = Cardinality(Handles("line"))

C9_Witness ==
    /\ script = "domain" /\ BuildDone /\ status = "ok"
    /\ Cardinality(Handles("physical")) = 7

(* ------------------------------- C10 ---------------------------------- *)

\* the centre and the points on the circle: the points the arcs refer to
ArcPoints == UNION {Range(entities[a].refs) : a \in Handles("arc")}

\* C10: in make_cv.py the arcs, the centre and the points on the circle
\* are created and written to the file, and nothing but the arcs refers to
\* them: no loop, no surface and no physical group; the physical groups are
\* the four square lines and the surface, whose only boundary is the
\* square loop.
C10_ArcsUnreferenced ==
    (script = "cv") =>
        /\ \A k \in 1..Len(entities) :
              LET e == entities[k]
              IN  /\ (Range(e.refs) \cup Range(e.holes)) \cap Handles("arc") = {}
                  /\ (e.kind # "arc") =>
                        (Range(e.refs) \cup Range(e.holes)) \cap ArcPoints = {}
        /\ BuildDone =>
              /\ Cardinality(Handles("arc")) = 4
              /\ Handles("arc") = Range(arcs)
              /\ Cardinality(ArcPoints) = 5
              /\ center \in ArcPoints
              /\ {entities[g].refs : g \in Handles("physical")}
                     = {lines, <<plane_surface>>}
              /\ Cardinality(Handles("physical")) = 2
              /\ Len(lines) = CvK
              /\ entities[plane_surface].refs = <<line_loops[1]>>
              /\ entities[plane_surface].holes = <<>>
              /\ entities[line_loops[1]].refs = lines
        /\ (Written /\ status = "ok") =>
              /\ \A a \in Handles("arc") : geoText[a].stmt = "Circle"
              /\ \A p \in ArcPoints : geoText[p].stmt = "Point"
              /\ {k \in 1..Len(geoText) : geoText[k].stmt = "Physical Line"}
                     = {k \in 1..Len(geoText) : geoText[k].args = lines
                                                /\ geoText[k].stmt # "Line Loop"}

C10_Witness ==
    /\ script = "cv" /\ Written /\ status = "ok"
    /\ Len(arcs) = 4 /\ geoText[arcs[1]].stmt = "Circle"

====
